---- MODULE Spec2Model ----
(***************************************************************************)
(* Model of the edgetunnel sync script in its two variants:                *)
(*   "sync"     - src/sync.js: ls-remote, per-branch diff with commit      *)
(*                times, mirror clone, persist, Telegram report;           *)
(*   "part_000" - src/unnamed/part_000: ls-remote, bare clone, per-branch  *)
(*                extraction, persist, Telegram report.                    *)
(* A run is one execution of main(); runs follow each other (the external  *)
(* scheduler) and the remote may be pushed to between runs.                *)
(*                                                                         *)
(* JavaScript values are modelled as strings: a commit hash is a string,   *)
(* undefined / null are the strings Undefined / Null, and the value found  *)
(* on Object.prototype for a key such as "constructor" is ProtoValue.      *)
(* A reference listing (the text of git ls-remote, trimmed) is the         *)
(* sequence of its lines; the empty text is the empty sequence.            *)
(***************************************************************************)
EXTENDS Integers, Sequences, FiniteSets, TLC

(***************************************************************************)
(* Bounds of the model.                                                    *)
(***************************************************************************)
\* number of distinct commit hashes a branch may point to
NumHashes == 2
\* commit dates returned by the GitHub API are 1..MaxTime (ms after epoch)
MaxTime == 1

HashNames == <<"aaa1111", "bbb2222", "ccc3333", "ddd4444">>
Hashes == {HashNames[i] : i \in 1..NumHashes}

\* Branch names advertised by the remote, in the order git ls-remote lists
\* them (sorted by reference name).  "constructor" is a legal branch name that
\* is also a property of Object.prototype.
BranchOrder == <<"constructor", "dev", "main">>
Branches == {BranchOrder[i] : i \in 1..Len(BranchOrder)}

(***************************************************************************)
(* JavaScript values.                                                      *)
(***************************************************************************)
Undefined == "undefined"
Null == "null"
ProtoValue == "[Function: Object]"
ObjectPrototypeKeys == {"constructor"}

\* ToBoolean of a modelled value
Truthy(v) == v \notin {Undefined, Null, ""}

\* typeof v === "string" among the modelled values
IsString(v) == v \notin {Undefined, Null, ProtoValue}

\* new Date(0).getTime()
EpochSentinel == 0

(***************************************************************************)
(* Plain objects: own keys in insertion order and their values.            *)
(***************************************************************************)
EmptyObject == [keys |-> <<>>, val |-> [k \in {} |-> Undefined]]

\* obj[k] = v
Put(obj, k, v) ==
    [keys |-> IF k \in DOMAIN obj.val THEN obj.keys ELSE Append(obj.keys, k),
     val  |-> [x \in (DOMAIN obj.val) \cup {k} |->
                  IF x = k THEN v ELSE obj.val[x]]]

\* obj[k]: own property, else the prototype chain, else undefined
Get(obj, k) ==
    IF k \in DOMAIN obj.val THEN obj.val[k]
    ELSE IF k \in ObjectPrototypeKeys THEN ProtoValue
    ELSE Undefined

(***************************************************************************)
(* Reference listings.                                                     *)
(***************************************************************************)
RefPrefix == "refs/heads/"

\* one line of git ls-remote: "<hash>\t<ref>"
Line(h, b) == [hash |-> h, ref |-> <<RefPrefix, b>>]

TextOf(f) ==
    LET ks == SelectSeq(BranchOrder, LAMBDA b : b \in DOMAIN f)
    IN  [i \in 1..Len(ks) |-> Line(f[ks[i]], ks[i])]

Listings ==
    {TextOf(f) : f \in UNION {[S -> Hashes] : S \in SUBSET Branches}}

\* ref.replace('refs/heads/', '')
StripPrefix(ref) == IF ref[1] = RefPrefix THEN ref[2] ELSE ref

RECURSIVE ParseLines(_, _, _)
ParseLines(lines, i, commits) ==
    IF i > Len(lines) THEN commits
    ELSE ParseLines(lines, i + 1,
                    Put(commits, StripPrefix(lines[i].ref), lines[i].hash))

parseCommitsData(commitsText) == ParseLines(commitsText, 1, EmptyObject)

Snapshots == {parseCommitsData(t) : t \in Listings}

(***************************************************************************)
(* The diff: helpers of getChangedBranches.                                *)
(***************************************************************************)
\* outcome of one GitHub commit lookup: a date, or a failure (network error,
\* non-OK response, malformed body)
LookupOutcomes ==
    {[ok |-> FALSE, date |-> 0]} \cup {[ok |-> TRUE, date |-> t] : t \in 1..MaxTime}

getBranchCommitTime_Now(outcome) ==
    IF outcome.ok THEN outcome.date ELSE MaxTime + 1

getBranchCommitTime(outcome) ==
    IF outcome.ok THEN outcome.date ELSE EpochSentinel

ChangedRecord_DropOld(branch, oldHash, newHash, commitTime) ==
    [branch |-> branch, oldHash |-> Undefined, newHash |-> newHash,
     commitTime |-> commitTime, isNew |-> Undefined]

\* the object literal pushed by the first loop (no isNew property)
ChangedRecord(branch, oldHash, newHash, commitTime) ==
    [branch |-> branch, oldHash |-> oldHash, newHash |-> newHash,
     commitTime |-> commitTime, isNew |-> Undefined]

\* the object literal pushed by the second loop
NewBranchRecord(branch, newHash, commitTime) ==
    [branch |-> branch, oldHash |-> Null, newHash |-> newHash,
     commitTime |-> commitTime, isNew |-> "true"]

\* Array.prototype.sort is stable: r goes after every element not later than it
RECURSIVE InsertByTime(_, _)
InsertByTime(s, r) ==
    IF s = <<>> THEN <<r>>
    ELSE IF r.commitTime - s[Len(s)].commitTime >= 0 THEN Append(s, r)
    ELSE Append(InsertByTime(SubSeq(s, 1, Len(s) - 1), r), s[Len(s)])

RECURSIVE SortFrom(_, _, _)
SortFrom(s, i, acc) ==
    IF i > Len(s) THEN acc ELSE SortFrom(s, i + 1, InsertByTime(acc, s[i]))

SortByCommitTime_None(s) == s

SortByCommitTime(s) == SortFrom(s, 1, <<>>)

(***************************************************************************)
(* Orchestration helpers.                                                  *)
(***************************************************************************)
TextsDiffer_Always(latestText, lastText) == TRUE

\* latestText !== lastText
TextsDiffer(latestText, lastText) == latestText /= lastText

CredentialsMissing_TokenOnly(token, chat) == ~token

\* !TELEGRAM_BOT_TOKEN || !TELEGRAM_CHAT_ID
CredentialsMissing(token, chat) == ~token \/ ~chat

\* where main continues after syncRepo() returns
AfterSync(v) == IF v = "sync" THEN "write" ELSE "branches"

AfterSyncFailure_Swallow(v) == AfterSync(v)

\* syncRepo rethrows what execSync threw
AfterSyncFailure(v) == "catch"

AfterWrite_Silent(v) == "exited"

\* where main continues after writeLastCommits()
AfterWrite(v) == IF v = "sync" THEN "render" ELSE "notify"

AfterDeliveryFailure_Escalate(from) == IF from = "notify" THEN "catch" ELSE "exited"

\* sendTelegramMessage catches its own error and returns
AfterDeliveryFailure(from) == "exited"

VARIABLES
    variant,              \* which script runs
    TELEGRAM_BOT_TOKEN,   \* TRUE iff the environment variable is set
    TELEGRAM_CHAT_ID,     \* TRUE iff the environment variable is set
    remote,               \* what git ls-remote of the source repository lists
    lastFile,             \* content of last_commit.txt (<<>>: absent or empty)
    pc,                   \* position of main()
    latestText, lastText, \* locals of main
    oldCommits, newCommits, changedBranches, idx,
    branches,             \* part_000: result of getAllBranches()
    message,              \* text handed to sendTelegramMessage
    thrown,               \* the error caught by main's catch ("none": none)
    exitCode,             \* process exit status
    \* history of the current run
    fileAtStart,          \* lastFile when the run started
    mirrors,              \* git clone operations completed
    wrote,                \* writeLastCommits was executed
    notices,              \* sendTelegramMessage calls and what became of them
    lookups,              \* outcomes of the commit lookups, in call order
    pushed                \* changedBranches in push order (before the sort)

vars == <<variant, TELEGRAM_BOT_TOKEN, TELEGRAM_CHAT_ID, remote, lastFile, pc,
          latestText, lastText, oldCommits, newCommits, changedBranches, idx,
          branches, message, thrown, exitCode, fileAtStart, mirrors, wrote,
          notices, lookups, pushed>>

env == <<variant, TELEGRAM_BOT_TOKEN, TELEGRAM_CHAT_ID>>
diffLocals == <<changedBranches, idx, lookups, pushed>>
hist == <<fileAtStart, mirrors, wrote, notices>>

\* locals and history as a run starts
RunStart ==
    /\ pc = "start"
    /\ latestText = <<>> /\ lastText = <<>>
    /\ oldCommits = EmptyObject /\ newCommits = EmptyObject
    /\ changedBranches = <<>> /\ idx = 1
    /\ branches = <<>>
    /\ message = "none"
    /\ thrown = "none"
    /\ exitCode = 0
    /\ fileAtStart = lastFile
    /\ mirrors = 0
    /\ wrote = FALSE
    /\ notices = <<>>
    /\ lookups = <<>>
    /\ pushed = <<>>

Init ==
    /\ variant \in {"sync", "part_000"}
    /\ TELEGRAM_BOT_TOKEN \in BOOLEAN
    /\ TELEGRAM_CHAT_ID \in BOOLEAN
    /\ remote \in Listings
    /\ lastFile = <<>>
    /\ RunStart

(***************************************************************************)
(* main, up to the comparison.                                             *)
(***************************************************************************)
\* getLatestCommits() and readLastCommits() succeed
CheckUpdates ==
    /\ pc = "start"
    /\ latestText' = remote
    /\ lastText' = lastFile
    /\ IF TextsDiffer(remote, lastFile)
       THEN IF variant = "sync"
            THEN /\ oldCommits' = IF lastFile /= <<>>
                                  THEN parseCommitsData(lastFile) ELSE EmptyObject
                 /\ newCommits' = parseCommitsData(remote)
                 /\ pc' = "loop1"
            ELSE /\ pc' = "sync"
                 /\ UNCHANGED <<oldCommits, newCommits>>
       ELSE /\ pc' = "exited"
            /\ UNCHANGED <<oldCommits, newCommits>>
    /\ UNCHANGED <<env, remote, lastFile, diffLocals, branches, message, thrown,
                   exitCode, hist>>

\* git ls-remote fails or times out: getLatestCommits rethrows
ListingFails ==
    /\ pc = "start"
    /\ thrown' = "listing"
    /\ pc' = "catch"
    /\ UNCHANGED <<env, remote, lastFile, latestText, lastText, oldCommits,
                   newCommits, diffLocals, branches, message, exitCode, hist>>

(***************************************************************************)
(* getChangedBranches, one loop iteration per step.                        *)
(***************************************************************************)
Loop1Step ==
    /\ pc = "loop1"
    /\ IF idx > Len(newCommits.keys)
       THEN /\ pc' = "loop2"
            /\ idx' = 1
            /\ UNCHANGED <<changedBranches, lookups, pushed>>
       ELSE LET branch == newCommits.keys[idx]
                newHash == newCommits.val[branch]
                oldHash == Get(oldCommits, branch)
            IN  /\ idx' = idx + 1
                /\ pc' = pc
                /\ IF oldHash /= newHash
                   THEN \E outcome \in LookupOutcomes :
                          LET r == ChangedRecord(branch, oldHash, newHash,
                                                 getBranchCommitTime(outcome))
                          IN  /\ changedBranches' = Append(changedBranches, r)
                              /\ pushed' = Append(pushed, r)
                              /\ lookups' = Append(lookups, outcome)
                   ELSE UNCHANGED <<changedBranches, lookups, pushed>>
    /\ UNCHANGED <<env, remote, lastFile, latestText, lastText, oldCommits,
                   newCommits, branches, message, thrown, exitCode, hist>>

Loop2Step ==
    /\ pc = "loop2"
    /\ IF idx > Len(newCommits.keys)
       THEN /\ pc' = "sort"
            /\ UNCHANGED <<idx, changedBranches, lookups, pushed>>
       ELSE LET branch == newCommits.keys[idx]
            IN  /\ idx' = idx + 1
                /\ pc' = pc
                /\ IF ~Truthy(Get(oldCommits, branch))
                   THEN \E outcome \in LookupOutcomes :
                          LET r == NewBranchRecord(branch, newCommits.val[branch],
                                                   getBranchCommitTime(outcome))
                          IN  /\ changedBranches' = Append(changedBranches, r)
                              /\ pushed' = Append(pushed, r)
                              /\ lookups' = Append(lookups, outcome)
                   ELSE UNCHANGED <<changedBranches, lookups, pushed>>
    /\ UNCHANGED <<env, remote, lastFile, latestText, lastText, oldCommits,
                   newCommits, branches, message, thrown, exitCode, hist>>

\* the sort and the return to main
SortStep ==
    /\ pc = "sort"
    /\ changedBranches' = SortByCommitTime(changedBranches)
    /\ pc' = "returned"
    /\ UNCHANGED <<env, remote, lastFile, latestText, lastText, oldCommits,
                   newCommits, idx, lookups, pushed, branches, message, thrown,
                   exitCode, hist>>

InitDiff ==
    /\ variant = "sync"
    /\ TELEGRAM_BOT_TOKEN = FALSE
    /\ TELEGRAM_CHAT_ID = FALSE
    /\ remote = <<>>
    /\ lastFile = <<>>
    /\ pc = "loop1"
    /\ latestText = <<>> /\ lastText = <<>>
    /\ oldCommits \in Snapshots
    /\ newCommits \in Snapshots
    /\ changedBranches = <<>> /\ idx = 1
    /\ branches = <<>>
    /\ message = "none"
    /\ thrown = "none"
    /\ exitCode = 0
    /\ fileAtStart = <<>>
    /\ mirrors = 0
    /\ wrote = FALSE
    /\ notices = <<>>
    /\ lookups = <<>>
    /\ pushed = <<>>

NextDiff == Loop1Step \/ Loop2Step \/ SortStep

SpecDiff == InitDiff /\ [][NextDiff]_vars

(***************************************************************************)
(* main of sync.js after the diff; main of part_000 after the comparison.  *)
(***************************************************************************)
\* await getRepoLastUpdateTime(): it catches its own errors and its result is
\* only logged
GetRepoLastUpdateTime ==
    /\ pc = "returned"
    /\ pc' = "sync"
    /\ UNCHANGED <<env, remote, lastFile, latestText, lastText, oldCommits,
                   newCommits, diffLocals, branches, message, thrown, exitCode,
                   hist>>

\* syncRepo(): rm -rf and git clone succeed
SyncRepoOk ==
    /\ pc = "sync"
    /\ mirrors' = mirrors + 1
    /\ pc' = AfterSync(variant)
    /\ UNCHANGED <<env, remote, lastFile, latestText, lastText, oldCommits,
                   newCommits, diffLocals, branches, message, thrown, exitCode,
                   fileAtStart, wrote, notices>>

\* syncRepo(): execSync throws (clone failure or timeout)
SyncRepoFails ==
    /\ pc = "sync"
    /\ pc' = AfterSyncFailure(variant)
    /\ thrown' = IF AfterSyncFailure(variant) = "catch" THEN "mirror" ELSE thrown
    /\ UNCHANGED <<env, remote, lastFile, latestText, lastText, oldCommits,
                   newCommits, diffLocals, branches, message, exitCode, hist>>

\* part_000: getAllBranches() succeeds
GetAllBranchesOk ==
    /\ pc = "branches"
    /\ branches' = [i \in 1..Len(remote) |-> StripPrefix(remote[i].ref)]
    /\ pc' = "copy"
    /\ UNCHANGED <<env, remote, lastFile, latestText, lastText, oldCommits,
                   newCommits, diffLocals, message, thrown, exitCode, hist>>

\* part_000: getAllBranches() rethrows the ls-remote error
GetAllBranchesFails ==
    /\ pc = "branches"
    /\ thrown' = "branches"
    /\ pc' = "catch"
    /\ UNCHANGED <<env, remote, lastFile, latestText, lastText, oldCommits,
                   newCommits, diffLocals, branches, message, exitCode, hist>>

\* part_000: copyBranchFiles for every branch (each catches its own errors)
\* and createBranchesIndex
CopyBranches ==
    /\ pc = "copy"
    /\ pc' = "write"
    /\ UNCHANGED <<env, remote, lastFile, latestText, lastText, oldCommits,
                   newCommits, diffLocals, branches, message, thrown, exitCode,
                   hist>>

\* writeLastCommits(latestText); in part_000 the next statement builds the
\* "synced N branches" text and calls sendTelegramMessage with it
WriteLastCommits ==
    /\ pc = "write"
    /\ lastFile' = latestText
    /\ wrote' = TRUE
    /\ pc' = AfterWrite(variant)
    /\ message' = IF variant = "part_000" THEN "synced" ELSE message
    /\ UNCHANGED <<env, remote, latestText, lastText, oldCommits, newCommits,
                   diffLocals, branches, thrown, exitCode, fileAtStart, mirrors,
                   notices>>

\* oldHash ? oldHash.substring(0, 7) : '无' throws a TypeError when oldHash is
\* truthy and has no substring method
RenderThrows(records) ==
    \E i \in 1..Len(records) :
        Truthy(records[i].oldHash) /\ ~IsString(records[i].oldHash)

\* sync.js: build the report
RenderMessage ==
    /\ pc = "render"
    /\ IF Len(changedBranches) > 0
       THEN IF RenderThrows(changedBranches)
            THEN /\ thrown' = "render"
                 /\ pc' = "catch"
                 /\ UNCHANGED message
            ELSE /\ message' = "report"
                 /\ pc' = "notify"
                 /\ UNCHANGED thrown
       ELSE /\ message' = "undetermined"
            /\ pc' = "notify"
            /\ UNCHANGED thrown
    /\ UNCHANGED <<env, remote, lastFile, latestText, lastText, oldCommits,
                   newCommits, diffLocals, branches, exitCode, hist>>

(***************************************************************************)
(* sendTelegramMessage, called with the report (pc = "notify") or with the *)
(* failure notice by main's catch (pc = "catch"), which then exits 1.      *)
(***************************************************************************)
NoticeText == IF pc = "catch" THEN thrown ELSE message
NoticeKind == IF pc = "catch" THEN "failure" ELSE "update"
Notice(result) == [kind |-> NoticeKind, text |-> NoticeText, result |-> result]

\* process.exit(1) follows the failure notice; after the report main returns
ExitAfter(from) == IF from = "catch" THEN 1 ELSE exitCode

SendSkipped ==
    /\ pc \in {"notify", "catch"}
    /\ CredentialsMissing(TELEGRAM_BOT_TOKEN, TELEGRAM_CHAT_ID)
    /\ notices' = Append(notices, Notice("skipped"))
    /\ exitCode' = ExitAfter(pc)
    /\ pc' = "exited"
    /\ UNCHANGED <<env, remote, lastFile, latestText, lastText, oldCommits,
                   newCommits, diffLocals, branches, message, thrown,
                   fileAtStart, mirrors, wrote>>

SendDelivered ==
    /\ pc \in {"notify", "catch"}
    /\ ~CredentialsMissing(TELEGRAM_BOT_TOKEN, TELEGRAM_CHAT_ID)
    /\ notices' = Append(notices, Notice("delivered"))
    /\ exitCode' = ExitAfter(pc)
    /\ pc' = "exited"
    /\ UNCHANGED <<env, remote, lastFile, latestText, lastText, oldCommits,
                   newCommits, diffLocals, branches, message, thrown,
                   fileAtStart, mirrors, wrote>>

\* fetch rejects or the response is not OK
SendFails ==
    /\ pc \in {"notify", "catch"}
    /\ ~CredentialsMissing(TELEGRAM_BOT_TOKEN, TELEGRAM_CHAT_ID)
    /\ notices' = Append(notices, Notice("failed"))
    /\ pc' = AfterDeliveryFailure(pc)
    /\ IF AfterDeliveryFailure(pc) = "exited"
       THEN /\ exitCode' = ExitAfter(pc)
            /\ UNCHANGED thrown
       ELSE /\ thrown' = "delivery"
            /\ UNCHANGED exitCode
    /\ UNCHANGED <<env, remote, lastFile, latestText, lastText, oldCommits,
                   newCommits, diffLocals, branches, message,
                   fileAtStart, mirrors, wrote>>

(***************************************************************************)
(* Between runs.                                                           *)
(***************************************************************************)
\* somebody pushes to the source repository before the run lists it (a push
\* during a run is seen by the next run)
RemotePush ==
    /\ pc = "start"
    /\ remote' \in Listings \ {remote}
    /\ UNCHANGED <<env, lastFile, pc, latestText, lastText, oldCommits,
                   newCommits, diffLocals, branches, message, thrown, exitCode,
                   hist>>

\* the scheduler starts the script again
NextRun ==
    /\ pc = "exited"
    /\ pc' = "start"
    /\ latestText' = <<>> /\ lastText' = <<>>
    /\ oldCommits' = EmptyObject /\ newCommits' = EmptyObject
    /\ changedBranches' = <<>> /\ idx' = 1
    /\ branches' = <<>>
    /\ message' = "none"
    /\ thrown' = "none"
    /\ exitCode' = 0
    /\ fileAtStart' = lastFile
    /\ mirrors' = 0
    /\ wrote' = FALSE
    /\ notices' = <<>>
    /\ lookups' = <<>>
    /\ pushed' = <<>>
    /\ UNCHANGED <<env, remote, lastFile>>

Next ==
    \/ CheckUpdates \/ ListingFails
    \/ Loop1Step \/ Loop2Step \/ SortStep
    \/ GetRepoLastUpdateTime
    \/ SyncRepoOk \/ SyncRepoFails
    \/ GetAllBranchesOk \/ GetAllBranchesFails \/ CopyBranches
    \/ WriteLastCommits
    \/ RenderMessage
    \/ SendSkipped \/ SendDelivered \/ SendFails
    \/ RemotePush \/ NextRun

Spec == Init /\ [][Next]_vars

(***************************************************************************)
(* Vocabulary of the properties.                                           *)
(***************************************************************************)
OwnKeys(obj) == DOMAIN obj.val

\* branches of the current snapshot that are new or point to another commit
ChangedSet ==
    {b \in OwnKeys(newCommits) :
        b \notin OwnKeys(oldCommits) \/ oldCommits.val[b] /= newCommits.val[b]}

\* branches in both snapshots with differing identifiers
UpdatedSet ==
    {b \in OwnKeys(newCommits) \cap OwnKeys(oldCommits) :
        oldCommits.val[b] /= newCommits.val[b]}

\* positions of the records of branch b in the returned list
RecordsFor(b) ==
    {i \in 1..Len(changedBranches) : changedBranches[i].branch = b}

Occurrences(s, r) == Cardinality({i \in 1..Len(s) : s[i] = r})

SamePush(s, t) ==
    /\ Len(s) = Len(t)
    /\ \A i \in 1..Len(s) : Occurrences(s, s[i]) = Occurrences(t, s[i])

CredentialsConfigured == TELEGRAM_BOT_TOKEN /\ TELEGRAM_CHAT_ID

Attempted(n) == n.result \in {"delivered", "failed"}

(***************************************************************************)
(* Properties of getChangedBranches (SpecDiff).                            *)
(***************************************************************************)
\* C1: the returned list holds exactly one record for each branch of the
\* current snapshot that is new or whose identifier differs, and none for any
\* other branch.
C1_ExactlyOneRecordPerChangedBranch ==
    pc = "returned" =>
        \A b \in Branches :
            Cardinality(RecordsFor(b)) = IF b \in ChangedSet THEN 1 ELSE 0

\* C2: every record returned for a branch absent from the previous snapshot
\* has isNew = true and no previous identifier; an empty previous snapshot and
\* a one-branch current snapshot give a single entry.
C2_NewBranchRecordsAreMarkedNew ==
    pc = "returned" =>
        /\ \A i \in 1..Len(changedBranches) :
              changedBranches[i].branch \notin OwnKeys(oldCommits) =>
                  /\ changedBranches[i].isNew = "true"
                  /\ ~Truthy(changedBranches[i].oldHash)
        /\ (OwnKeys(oldCommits) = {} /\ Cardinality(OwnKeys(newCommits)) = 1)
              => Len(changedBranches) = 1

\* C6: every branch in both snapshots with differing identifiers is in the
\* returned list, not marked new, with the previous identifier that of the
\* previous snapshot and the new identifier that of the current one, both
\* populated and unequal.
C6_UpdatedBranchRecord ==
    pc = "returned" =>
        \A b \in UpdatedSet :
            /\ RecordsFor(b) /= {}
            /\ \A i \in RecordsFor(b) :
                  /\ ~Truthy(changedBranches[i].isNew)
                  /\ changedBranches[i].oldHash = oldCommits.val[b]
                  /\ changedBranches[i].newHash = newCommits.val[b]
                  /\ Truthy(changedBranches[i].oldHash)
                  /\ Truthy(changedBranches[i].newHash)
                  /\ changedBranches[i].oldHash /= changedBranches[i].newHash

C6_Witness ==
    /\ pc = "returned"
    /\ UpdatedSet /= {}
    /\ ChangedSet /= UpdatedSet

\* C7: a failed commit lookup aborts nothing and touches no other record: the
\* diff returns without an error, every changed branch has a record, a record
\* whose lookup failed carries the sentinel, every other record carries the
\* date its own lookup returned, and apart from its time a record depends on
\* the two snapshots only.
C7_LookupFailureIsLocal ==
    /\ pc \in {"loop1", "loop2", "sort", "returned"} => thrown = "none"
    /\ pc = "returned" =>
          /\ Len(lookups) = Len(pushed)
          /\ SamePush(pushed, changedBranches)
          /\ \A b \in ChangedSet : RecordsFor(b) /= {}
          /\ \A i \in 1..Len(pushed) :
                LET r == pushed[i]
                    t == IF lookups[i].ok THEN lookups[i].date ELSE EpochSentinel
                IN  /\ r.commitTime = t
                    /\ r \in {ChangedRecord(r.branch, Get(oldCommits, r.branch),
                                            newCommits.val[r.branch], t),
                              NewBranchRecord(r.branch, newCommits.val[r.branch], t)}

C7_Witness ==
    /\ pc = "returned"
    /\ \E i, j \in 1..Len(pushed) :
          /\ pushed[i].branch /= pushed[j].branch
          /\ ~lookups[i].ok
          /\ lookups[j].ok

\* C8: the returned list is ordered non-decreasingly by commit time, a failed
\* lookup counting with its sentinel.
C8_SortedByCommitTime ==
    pc = "returned" =>
        \A i, j \in 1..Len(changedBranches) :
            i < j => changedBranches[i].commitTime <= changedBranches[j].commitTime

C8_Witness ==
    /\ pc = "returned"
    /\ \E i, j \in 1..Len(pushed) :
          /\ i < j
          /\ pushed[i].commitTime > pushed[j].commitTime
          /\ ~lookups[j].ok

(***************************************************************************)
(* Properties of a run (Spec).                                             *)
(***************************************************************************)
\* C3: when the fetched listing equals the persisted one, the run ends with
\* no clone, no write of the snapshot, no notification and exit status 0, in
\* both variants.
C3_UnchangedShortCircuits ==
    (pc = "exited" /\ thrown /= "listing" /\ latestText = fileAtStart) =>
        /\ mirrors = 0
        /\ ~wrote
        /\ lastFile = fileAtStart
        /\ notices = <<>>
        /\ exitCode = 0
        /\ thrown = "none"

C3_Witness ==
    /\ pc = "exited"
    /\ thrown = "none"
    /\ latestText = fileAtStart
    /\ latestText /= <<>>
    /\ variant = "part_000"

\* C4 as stated: after any unhandled error the run has sent a failure notice
\* with the error description and exited non-zero, whatever the credentials.
C4_FailureNoticeAlwaysSent ==
    (pc = "exited" /\ thrown /= "none") =>
        /\ exitCode = 1
        /\ \E i \in 1..Len(notices) :
              /\ notices[i].kind = "failure"
              /\ notices[i].text = thrown
              /\ Attempted(notices[i])

\* C4 amended: after any unhandled error the run goes straight to its catch,
\* hands exactly one failure notice with the error description to
\* sendTelegramMessage, which sends it if and only if both credentials are
\* configured, and exits with status 1; the failed stage is not run again.
C4_FailureNoticeWhenConfigured ==
    /\ thrown /= "none" => pc \in {"catch", "exited"}
    /\ thrown = "mirror" => mirrors = 0
    /\ (pc = "exited" /\ thrown /= "none") =>
          /\ exitCode = 1
          /\ Len(notices) = 1
          /\ notices[1].kind = "failure"
          /\ notices[1].text = thrown
          /\ Attempted(notices[1]) <=> CredentialsConfigured

C4_Witness ==
    /\ pc = "exited"
    /\ thrown = "mirror"
    /\ TELEGRAM_BOT_TOKEN /\ ~TELEGRAM_CHAT_ID
    /\ notices /= <<>>
    /\ notices[1].result = "skipped"

\* C5: the persisted snapshot is written only in a run whose clone succeeded;
\* a run that fails in the listing or the clone leaves it as it was at the
\* start, so the same remote still differs from it on the next run.
C5_SnapshotKeptOnFailure ==
    /\ ~wrote => lastFile = fileAtStart
    /\ wrote => (mirrors = 1 /\ lastFile = latestText)
    /\ (pc = "exited" /\ thrown \in {"listing", "mirror", "branches"}) =>
          /\ ~wrote
          /\ exitCode = 1
    /\ (pc = "exited" /\ thrown \in {"mirror", "branches"}) =>
          TextsDiffer(remote, lastFile)

C5_Witness ==
    /\ pc = "exited"
    /\ thrown = "mirror"
    /\ fileAtStart /= <<>>
    /\ lastFile = fileAtStart
    /\ exitCode = 1

\* C9: a delivery failure is swallowed by sendTelegramMessage: one call per
\* run and no second attempt; when the report fails to deliver, the run still
\* ends with status 0 after a successful clone and with the new snapshot
\* persisted; when the failure notice fails to deliver, the run exits 1.
C9_DeliveryFailureNotEscalated ==
    /\ Len(notices) <= 1
    /\ thrown /= "delivery"
    /\ (pc = "exited" /\ notices /= <<>> /\ notices[1].result = "failed") =>
          IF notices[1].kind = "update"
          THEN /\ exitCode = 0
               /\ thrown = "none"
               /\ mirrors = 1
               /\ wrote
               /\ lastFile = latestText
          ELSE /\ exitCode = 1
               /\ thrown /= "none"

C9_Witness ==
    /\ pc = "exited"
    /\ notices /= <<>>
    /\ notices[1].kind = "update"
    /\ notices[1].result = "failed"
    /\ exitCode = 0

\* C10 as stated: with the credentials configured, a run either delivers a
\* change notification or leaves the persisted snapshot unmodified.
C10_ChangeDeliveredOrKept ==
    (pc = "exited" /\ CredentialsConfigured) =>
        \/ lastFile = fileAtStart
        \/ \E i \in 1..Len(notices) :
              notices[i].kind = "update" /\ notices[i].result = "delivered"

\* C10 amended: with the credentials configured, a run either leaves the
\* persisted snapshot unmodified or, after writing it, makes exactly one
\* attempt to deliver a notification: the change report, or the failure notice
\* when building the report throws.  The attempt may fail.
C10_ChangeAttemptedOrKept ==
    /\ (pc \in {"notify", "render"}) => wrote
    /\ (pc = "exited" /\ CredentialsConfigured) =>
          \/ lastFile = fileAtStart
          \/ /\ wrote
             /\ Len(notices) = 1
             /\ Attempted(notices[1])
             /\ notices[1].kind = "update" \/ thrown = "render"

C10_Witness ==
    /\ pc = "exited"
    /\ CredentialsConfigured
    /\ wrote
    /\ lastFile /= fileAtStart
    /\ notices /= <<>>
    /\ notices[1].kind = "update"
    /\ notices[1].result = "failed"

====
